---- MODULE Spec2Model ----
(***************************************************************************)
(* The aggregation pipeline of the Madrid air-quality charts:              *)
(*   dataPreparation.py  the annual summary (annual_pollution_*.csv)       *)
(*   main.py             seasonal bar chart, seasonal share (pie) chart,   *)
(*                       station ranking chart, trend chart, entry point   *)
(* Each script is a state machine over its local variables; the contents   *)
(* of a file enter the state when the script reads the file.               *)
(* Floating-point values are exact rationals [n, d]; d = 0 encodes the     *)
(* non-finite values (NaN, inf).  Row order inside a file is immaterial to *)
(* every aggregate taken here, so files are read with rows in a canonical  *)
(* order.                                                                  *)
(***************************************************************************)
EXTENDS Integers, Sequences, FiniteSets

VARIABLES
    pc,             \* position of the running script
    err,            \* the exception that ended it, "none" otherwise
    files,          \* the sorted directory listing / glob result
    idx,            \* position of the file loop in files
    df,             \* the frame most recently read with pd.read_csv
    nread,          \* rows read so far in this run
    headers,        \* history: the column sets of the files read so far
    annual_data,    \* dataPreparation.py: list of yearly average rows
    df_yearly,      \* dataPreparation.py: the table written to the csv
    df_list,        \* main.py: per-file frames collected by the loops
    data_avg,       \* seasonal_pollution_chart: means and ranks
    season_means,   \* seasonal_pollution_pie_chart: means and shares
    pollutant_avgs, \* station_ranking_chart: per-station means and names
    ranking,        \* station_ranking_chart: df_sorted per pollutant
    artifacts       \* files written in the working directory

vars == <<pc, err, files, idx, df, nread, headers, annual_data, df_yearly,
          df_list, data_avg, season_means, pollutant_avgs, ranking, artifacts>>

-----------------------------------------------------------------------------
(* Bounds of the model *)

\* number of yearly files the data directory may hold
NumYears == 2
\* rows read over one run of dataPreparation.py
MaxRows == 2
\* rows read over one run of a seasonal chart function
MaxObs == 3
\* rows of the 2018 file read by the station ranking
MaxStationRows == 2

\* the missing value of a cell (pandas NaN / NaT), outside the value range
NaN == -1

\* concentrations a cell may hold
Vals == {1, 2}
\* file years: names of two and of three digits, so that the order of the
\* names and the order of the years differ
Years == {98 + k : k \in 1..NumYears}
\* months a parsed date may have: one of every season, December for Winter
Months == {4, 7, 10, 12}

None == "None"

-----------------------------------------------------------------------------
(* Sequences *)

RECURSIVE SumSeq(_)
SumSeq(s) == IF s = <<>> THEN 0 ELSE Head(s) + SumSeq(Tail(s))

Range(s) == {s[k] : k \in DOMAIN s}

RECURSIVE Concat(_)
Concat(ss) == IF ss = <<>> THEN <<>> ELSE Head(ss) \o Concat(Tail(ss))

-----------------------------------------------------------------------------
(* Floating point values as exact rationals *)

FNaN == [n |-> 0, d |-> 0]
FInf == [n |-> 1, d |-> 0]
F(n, d) == [n |-> n, d |-> d]
IsFinite(x) == x.d > 0
FEq(x, y) == IsFinite(x) /\ IsFinite(y) /\ x.n * y.d = y.n * x.d
FLess(x, y) == IsFinite(x) /\ IsFinite(y) /\ x.n * y.d < y.n * x.d
\* x + y, NaN propagating
FAdd(x, y) ==
    IF IsFinite(x) /\ IsFinite(y) THEN F(x.n * y.d + y.n * x.d, x.d * y.d)
    ELSE FNaN
\* x / y for x, y >= 0: 0/0 is NaN, x/0 is inf
FDiv(x, y) ==
    IF ~(IsFinite(x) /\ IsFinite(y)) THEN FNaN
    ELSE IF y.n = 0 THEN (IF x.n = 0 THEN FNaN ELSE FInf)
    ELSE F(x.n * y.d, x.d * y.n)

\* Series.mean(): the mean of the non-missing cells, NaN when there is none
Mean(cells) ==
    LET present == SelectSeq(cells, LAMBDA v : v # NaN)
    IN  IF present = <<>> THEN FNaN ELSE F(SumSeq(present), Len(present))

\* Series.sum(): the sum of the non-NaN values (skipna), 0 when there is none
RECURSIVE FSumSkipNa(_)
FSumSkipNa(xs) ==
    IF xs = <<>> THEN F(0, 1)
    ELSE IF IsFinite(Head(xs)) THEN FAdd(Head(xs), FSumSkipNa(Tail(xs)))
    ELSE FSumSkipNa(Tail(xs))

-----------------------------------------------------------------------------
(* The yearly files.  A frame as read by pd.read_csv is [cols, rows]; a row  *)
(* is [date, station, NO_2]; a date cell is [k, y, m] with k "ok" (a date of *)
(* year y, month m), "empty" (no text) or "bad" (text that is no date).      *)

Columns == {"date", "station", "NO_2"}
\* the column sets a yearly file may have: the station identifier, and the
\* date and the NO_2 readings or not
ColSets == {cs \in SUBSET Columns : "station" \in cs}
\* the station identifier every row of the modelled files carries
StationId == 4

OkDate(y, m) == [k |-> "ok", y |-> y, m |-> m]
EmptyDate == [k |-> "empty", y |-> NaN, m |-> NaN]
BadDate == [k |-> "bad", y |-> NaN, m |-> NaN]

\* What a row is drawn from: the date relative to the year of the file name
\* (dy = 0: that year, dy = 1: the year after) and the NO_2 cell.  No script
\* reads the reading of a row whose date is no date.
RowKinds ==
    [k : {"ok"}, dy : {0, 1}, m : Months, v : Vals \cup {NaN}]
        \cup [k : {"empty"}, dy : {0}, m : {NaN}, v : Vals \cup {NaN}]
        \cup [k : {"bad"}, dy : {0}, m : {NaN}, v : {NaN}]

\* the canonical order of rows in a file
KindCode(r) ==
    (((CASE r.k = "ok" -> 0 [] r.k = "empty" -> 1 [] OTHER -> 2) * 2 + r.dy) * 14
        + (r.m + 1)) * 4 + (r.v + 1)

\* the sequences of at most n kinds of K in canonical order
RECURSIVE SortedSeqs(_, _)
SortedSeqs(K, n) ==
    IF n = 0 THEN {<<>>}
    ELSE LET P == SortedSeqs(K, n - 1)
             ext == {sr \in {p \in P : Len(p) = n - 1} \X K :
                        sr[1] = <<>> \/ KindCode(sr[1][Len(sr[1])]) <= KindCode(sr[2])}
         IN  P \cup {Append(sr[1], sr[2]) : sr \in ext}

\* the frame pd.read_csv returns for a file of year y with columns cols and
\* rows of the kinds ks; a cell of a column the file lacks is absent
Frame(y, cols, ks) ==
    [cols |-> cols,
     rows |-> [i \in DOMAIN ks |->
        [date    |-> IF "date" \notin cols THEN EmptyDate
                     ELSE IF ks[i].k = "ok" THEN OkDate(y + ks[i].dy, ks[i].m)
                     ELSE IF ks[i].k = "empty" THEN EmptyDate ELSE BadDate,
         station |-> IF "station" \in cols THEN StationId ELSE NaN,
         NO_2    |-> IF "NO_2" \in cols THEN ks[i].v ELSE NaN]]]

\* one draw per frame: cells of absent columns carry nothing to choose
Canonical(cols, ks) ==
    \A i \in DOMAIN ks :
        /\ "date" \notin cols => ks[i].k = "empty"
        /\ "NO_2" \notin cols => ks[i].v = NaN

NoFrame == [cols |-> {}, rows |-> <<>>]

-----------------------------------------------------------------------------
(* File names: <stem>_<digits>.csv, and stations.csv *)

YearFile(digits) == [stem |-> "madrid", num |-> digits]
StationsFile == [stem |-> "stations", num |-> <<>>]

\* str(n) as its decimal digits
RECURSIVE Digits(_)
Digits(n) == IF n < 10 THEN <<n>> ELSE Append(Digits(n \div 10), n % 10)

\* int(file.split('_')[1].split('.')[0])
RECURSIVE ParseInt(_)
ParseInt(ds) ==
    IF ds = <<>> THEN 0 ELSE ParseInt(SubSeq(ds, 1, Len(ds) - 1)) * 10 + ds[Len(ds)]

\* string order of the digit parts: "100.csv" < "98.csv", "10.csv" < "100.csv"
RECURSIVE DigitsLess(_, _)
DigitsLess(a, b) ==
    IF a = <<>> THEN b # <<>>
    ELSE IF b = <<>> THEN FALSE
    ELSE IF Head(a) # Head(b) THEN Head(a) < Head(b)
    ELSE DigitsLess(Tail(a), Tail(b))

\* string order of the names: "madrid_..." < "stations.csv"
NameLess(a, b) ==
    IF a.stem # b.stem THEN a.stem = "madrid" ELSE DigitsLess(a.num, b.num)

\* sorted(names)
RECURSIVE SortedNames(_)
SortedNames(S) ==
    IF S = {} THEN <<>>
    ELSE LET m == CHOOSE x \in S : \A y \in S \ {x} : NameLess(x, y)
         IN  <<m>> \o SortedNames(S \ {m})

\* the listings a data directory can give: one file per year, stations.csv or not
Listings ==
    {{YearFile(Digits(y)) : y \in ys} \cup st :
        ys \in SUBSET Years, st \in {{}, {StationsFile}}}

-----------------------------------------------------------------------------
(* dataPreparation.py: the annual summary *)

\* pollutants = ['NO_2', 'PM10', 'O_3', 'CO', 'SO_2']
pollutants == {"NO_2", "PM10", "O_3", "CO", "SO_2"}

\* the rows dataPreparation.py is run on: months play no part in it
AnnualKinds == {r \in RowKinds : r.k = "ok" => r.m = 7}
\* a yearly file may be empty; AnnualRowSeqs[n]: the files of at most n rows
AnnualRowSeqs == [n \in 0..MaxRows |-> SortedSeqs(AnnualKinds, n)]

\* pd.to_datetime(df['date'], errors='coerce').dt.year: NaN where no date parses
CoercedYear(date) == IF date.k = "ok" THEN date.y ELSE NaN

\* df[df['year'] == year]
FilterYear(frame, year) ==
    [frame EXCEPT !.rows = SelectSeq(frame.rows, LAMBDA r : CoercedYear(r.date) = year)]

\* [col for col in pollutants if col in df.columns]
ValidCols(frame) == pollutants \cap frame.cols

\* not valid_cols or df[valid_cols].empty
SkipsYear(frame) == ValidCols(frame) = {} \/ frame.rows = <<>>

\* df[valid_cols].mean(numeric_only=True) with avg_row['year'] = year
AvgRow(frame, year) ==
    [year |-> year, NO_2 |-> Mean([i \in DOMAIN frame.rows |-> frame.rows[i].NO_2])]

\* the position at which a row of year y enters a list sorted by year
RECURSIVE InsertByYear(_, _)
InsertByYear(row, sorted) ==
    IF sorted = <<>> THEN <<row>>
    ELSE IF row.year < Head(sorted).year THEN <<row>> \o sorted
    ELSE <<Head(sorted)>> \o InsertByYear(row, Tail(sorted))

RECURSIVE SortByYear(_)
SortByYear(rows) ==
    IF rows = <<>> THEN <<>> ELSE InsertByYear(Head(rows), SortByYear(Tail(rows)))

\* a list written in the order it was collected
KeepOrder(rows) == rows

\* pd.DataFrame(annual_data).sort_values('year').reset_index(drop=True)
SortValuesYear(rows) == SortByYear(rows)

AnnualCsv == "annual_pollution_2001_2018.csv"

mainVars == <<df_list, data_avg, season_means, pollutant_avgs, ranking>>

\* for file in sorted(os.listdir(DATA_DIR))
AnnualListDir ==
    /\ pc = "start"
    /\ \E names \in Listings : files' = SortedNames(names)
    /\ pc' = "loop"
    /\ UNCHANGED <<err, idx, df, nread, headers, annual_data, df_yearly, artifacts, mainVars>>

\* if not file.endswith('.csv') or file == 'stations.csv': continue
AnnualSkipName ==
    /\ pc = "loop" /\ idx <= Len(files)
    /\ files[idx] = StationsFile
    /\ idx' = idx + 1
    /\ UNCHANGED <<pc, err, files, df, nread, headers, annual_data, df_yearly, artifacts, mainVars>>

\* one pass of the loop body over a yearly file
AnnualFile ==
    /\ pc = "loop" /\ idx <= Len(files)
    /\ files[idx] # StationsFile
    /\ \E cols \in ColSets, ks \in AnnualRowSeqs[MaxRows - nread] :
        LET year == ParseInt(files[idx].num)
            read == Frame(year, cols, ks)
            kept == FilterYear(read, year)
        IN  /\ Canonical(cols, ks)
            /\ nread' = nread + Len(ks)
            /\ df' = read
            /\ annual_data' =
                   IF "date" \notin cols THEN annual_data
                   ELSE IF SkipsYear(kept) THEN annual_data
                   ELSE Append(annual_data, AvgRow(kept, year))
    /\ idx' = idx + 1
    /\ UNCHANGED <<pc, err, files, headers, df_yearly, artifacts, mainVars>>

\* df_yearly = pd.DataFrame(annual_data).sort_values('year')...; to_csv
AnnualWrite ==
    /\ pc = "loop" /\ idx > Len(files)
    /\ IF annual_data = <<>>
       THEN \* an empty frame has no column 'year'
            /\ pc' = "error" /\ err' = "KeyError"
            /\ UNCHANGED <<df_yearly, artifacts>>
       ELSE /\ df_yearly' = SortValuesYear(annual_data)
            /\ artifacts' = [artifacts EXCEPT ![AnnualCsv] = "written"]
            /\ pc' = "done" /\ UNCHANGED err
    /\ UNCHANGED <<files, idx, df, nread, headers, annual_data, mainVars>>

Artifacts ==
    {AnnualCsv, "BA2_seasonal_pie_chart.html", "BA2_seasonal_bar_chart.html",
     "BCK2_station_pollution_chart.html", "OMR4_pollution_trend.html"}

InitLocals ==
    /\ pc = "start" /\ err = "none"
    /\ files = <<>> /\ idx = 1 /\ df = NoFrame /\ nread = 0 /\ headers = <<>>
    /\ annual_data = <<>> /\ df_yearly = None
    /\ df_list = <<>> /\ data_avg = {} /\ season_means = None
    /\ pollutant_avgs = <<>> /\ ranking = <<>>

InitAnnual == InitLocals /\ artifacts = [a \in Artifacts |-> "absent"]

NextAnnual == AnnualListDir \/ AnnualSkipName \/ AnnualFile \/ AnnualWrite

SpecAnnual == InitAnnual /\ [][NextAnnual]_vars

\* C1: when dataPreparation.py has written the annual summary, its rows are
\* strictly ascending by year: every row's year is greater than the year of
\* the row before it, so no year appears twice.
C1_AnnualSortedStrict ==
    pc = "done" =>
        \A i, j \in DOMAIN df_yearly : i < j => df_yearly[i].year < df_yearly[j].year

\* a summary of several years whose files were listed in another order
C1_Witness ==
    /\ pc = "done" /\ Len(df_yearly) >= 2
    /\ annual_data # df_yearly

\* the frame of the last yearly file of the listing, once the loop is over
LastYearName == LET ys == SelectSeq(files, LAMBDA f : f # StationsFile) IN ys[Len(ys)]
LastFileEmptyYear ==
    /\ idx > Len(files) /\ \E k \in DOMAIN files : files[k] # StationsFile
    /\ "date" \in df.cols
    /\ SkipsYear(FilterYear(df, ParseInt(LastYearName.num)))

\* C5: a file whose rows all lie outside its year, or that has no tracked
\* pollutant, is skipped without an error: the run completes and writes the
\* annual summary, with no row for that year.
C5_SkippedYearNoError ==
    (pc \in {"done", "error"} /\ LastFileEmptyYear) =>
        /\ err = "none" /\ artifacts[AnnualCsv] = "written"
        /\ \A i \in DOMAIN df_yearly : df_yearly[i].year # ParseInt(LastYearName.num)

-----------------------------------------------------------------------------
(* main.py: what the two seasonal functions share *)

Seasons == <<"Winter", "Spring", "Summer", "Fall">>

\* the lambda mapped over df['month']; a missing month (NaN) takes the last branch
SeasonOf(m) ==
    IF m \in {12, 1, 2} THEN "Winter"
    ELSE IF m \in {3, 4, 5} THEN "Spring"
    ELSE IF m \in {6, 7, 8} THEN "Summer"
    ELSE "Fall"

\* the rows the seasonal functions are run on: dated in the year of the file
SeasonKinds == {r \in RowKinds : r.dy = 0}
\* SeasonRowSeqs[n]: the files of one to n rows
SeasonRowSeqs == [n \in 0..MaxObs |-> SortedSeqs(SeasonKinds, n) \ {<<>>}]

\* sorted(glob.glob(os.path.join(DATA_DIR, "madrid_*.csv")))
GlobMadrid(names) == SortedNames({f \in names : f.stem = "madrid"})

\* pd.read_csv(path, parse_dates=['date']) leaves the column as text when a
\* cell is no date, and df['date'].dt then raises
DateColumnParsed(frame) == \A i \in DOMAIN frame.rows : frame.rows[i].date.k # "bad"

\* df['date'].dt.month / .dt.year: NaN for a missing date (NaT)
MonthOf(date) == IF date.k = "ok" THEN date.m ELSE NaN
YearOf(date) == IF date.k = "ok" THEN date.y ELSE NaN

annualVars == <<annual_data, df_yearly>>

-----------------------------------------------------------------------------
(* main.py: seasonal_pollution_pie_chart(pollutant='NO_2') *)

PieChart == "BA2_seasonal_pie_chart.html"

\* df[['season', pollutant]].dropna() after the season column is added
ShareFrame(frame) ==
    LET labelled == [i \in DOMAIN frame.rows |->
                        [season |-> SeasonOf(MonthOf(frame.rows[i].date)),
                         NO_2   |-> frame.rows[i].NO_2]]
    IN  SelectSeq(labelled, LAMBDA r : r.NO_2 # NaN)

\* all_data.groupby('season')[pollutant].mean() reindexed to the four seasons:
\* a season without a row gets NaN
SeasonMean(all_data, s) ==
    LET rows == SelectSeq(all_data, LAMBDA r : r.season = s)
    IN  Mean([i \in DOMAIN rows |-> rows[i].NO_2])

\* season_means with season_means['percent'] = mean / mean.sum()
SeasonShares(all_data) ==
    LET means == [k \in DOMAIN Seasons |-> SeasonMean(all_data, Seasons[k])]
        total == FSumSkipNa(means)
    IN  [k \in DOMAIN Seasons |->
            [season |-> Seasons[k], mean |-> means[k], percent |-> FDiv(means[k], total)]]

\* the loop body on the file whose read_csv result is `read`: the error it
\* raises, whether it skips the file, the frame it appends
ShareBody(read) ==
    IF "date" \notin read.cols
    THEN \* read_csv: Missing column provided to 'parse_dates'
         [err |-> "ValueError:parse_dates", skip |-> FALSE, out |-> <<>>]
    ELSE IF "NO_2" \notin read.cols
    THEN [err |-> "none", skip |-> TRUE, out |-> <<>>]
    ELSE IF ~DateColumnParsed(read)
    THEN [err |-> "AttributeError:dt", skip |-> FALSE, out |-> <<>>]
    ELSE [err |-> "none", skip |-> FALSE, out |-> ShareFrame(read)]

shareOther == <<annualVars, data_avg, pollutant_avgs, ranking>>

ShareGlob ==
    /\ pc = "start"
    /\ \E names \in Listings : files' = GlobMadrid(names)
    /\ pc' = "loop"
    /\ UNCHANGED <<err, idx, df, nread, headers, df_list, season_means, artifacts>>
    /\ UNCHANGED shareOther

\* one pass of the loop body
ShareFile ==
    /\ pc = "loop" /\ idx <= Len(files)
    /\ \E cols \in ColSets, ks \in SeasonRowSeqs[MaxObs - nread] :
        LET read == Frame(ParseInt(files[idx].num), cols, ks)
            body == ShareBody(read)
        IN  /\ Canonical(cols, ks)
            /\ nread' = nread + Len(ks)
            /\ headers' = Append(headers, cols)
            /\ df' = IF "date" \in cols THEN read ELSE df
            /\ IF body.err # "none"
               THEN pc' = "error" /\ err' = body.err /\ UNCHANGED <<df_list, idx>>
               ELSE /\ df_list' = IF body.skip THEN df_list ELSE Append(df_list, body.out)
                    /\ idx' = idx + 1
                    /\ UNCHANGED <<pc, err>>
    /\ UNCHANGED <<files, season_means, artifacts>>
    /\ UNCHANGED shareOther

\* after the loop: the check of df_list, the shares, the chart
ShareFinish ==
    /\ pc = "loop" /\ idx > Len(files)
    /\ IF df_list = <<>>
       THEN /\ pc' = "error" /\ err' = "ValueError:no_data"
            /\ UNCHANGED <<season_means, artifacts>>
       ELSE /\ season_means' = SeasonShares(Concat(df_list))
            /\ artifacts' = [artifacts EXCEPT ![PieChart] = "written"]
            /\ pc' = "done" /\ UNCHANGED err
    /\ UNCHANGED <<files, idx, df, nread, headers, df_list>>
    /\ UNCHANGED shareOther

InitShare == InitLocals /\ artifacts = [a \in Artifacts |-> "absent"]

NextShare == ShareGlob \/ ShareFile \/ ShareFinish

SpecShare == InitShare /\ [][NextShare]_vars

RECURSIVE FSum(_)
FSum(xs) == IF xs = <<>> THEN F(0, 1) ELSE FAdd(Head(xs), FSum(Tail(xs)))

\* C3: whenever the pie function completes, the output has a share for each
\* of Winter, Spring, Summer, Fall in that order, and the four shares sum to 1.
C3_SharesSumToOne ==
    pc = "done" =>
        /\ [k \in DOMAIN season_means |-> season_means[k].season] = Seasons
        /\ FEq(FSum([k \in DOMAIN season_means |-> season_means[k].percent]), F(1, 1))

\* C7: the pie function ends in an error exactly when no file it read has
\* the NO_2 column.
C7_FailsIffNoTargetColumn ==
    pc \in {"done", "error"} =>
        (err # "none" <=> \A k \in DOMAIN headers : "NO_2" \notin headers[k])

\* the frame a file contributes when rows without a parsed date are left out
\* and every other row is labelled by its month
DatedShareFrame(frame) ==
    LET dated == SelectSeq(frame.rows, LAMBDA r : r.date.k = "ok" /\ r.NO_2 # NaN)
    IN  [i \in DOMAIN dated |->
            [season |-> CASE dated[i].date.m \in {12, 1, 2} -> "Winter"
                          [] dated[i].date.m \in {3, 4, 5} -> "Spring"
                          [] dated[i].date.m \in {6, 7, 8} -> "Summer"
                          [] dated[i].date.m \in {9, 10, 11} -> "Fall",
             NO_2 |-> dated[i].NO_2]]

\* C9: the rows a file contributes to the seasonal means are its rows with a
\* parsed date, each labelled by its month; a row whose date is missing gets
\* no season and contributes nothing.
C9_UndatedRowsExcluded ==
    (pc = "loop" /\ idx > 1 /\ "NO_2" \in df.cols) =>
        df_list[Len(df_list)] = DatedShareFrame(df)

-----------------------------------------------------------------------------
(* main.py: seasonal_pollution_chart() *)

BarChart == "BA2_seasonal_bar_chart.html"

\* the columns of a yearly file in file order
ColumnOrder == <<"date", "station", "NO_2">>

\* [c for c in df.columns if c not in ['date', 'station_id', 'month', 'year', 'season']]
ValueVars(frame) ==
    SelectSeq(ColumnOrder,
              LAMBDA c : c \in frame.cols
                         /\ c \notin {"date", "station_id", "month", "year", "season"})

CellOf(row, c) == IF c = "station" THEN row.station ELSE row.NO_2

\* df.melt(id_vars=['year', 'season'], value_vars=value_vars, ...) and
\* dropna(subset=['value']): one long row per value column and row
RECURSIVE MeltColumns(_, _)
MeltColumns(frame, cs) ==
    IF cs = <<>> THEN <<>>
    ELSE [i \in DOMAIN frame.rows |->
            [year      |-> YearOf(frame.rows[i].date),
             season    |-> SeasonOf(MonthOf(frame.rows[i].date)),
             pollutant |-> Head(cs),
             value     |-> CellOf(frame.rows[i], Head(cs))]]
         \o MeltColumns(frame, Tail(cs))

Melt(frame) == SelectSeq(MeltColumns(frame, ValueVars(frame)), LAMBDA r : r.value # NaN)

\* data.groupby(['year', 'season', 'pollutant']): rows with a missing key
\* belong to no group
GroupKeys(data) ==
    {<<r.year, r.season, r.pollutant>> : r \in {x \in Range(data) : x.year # NaN}}

GroupMean(data, key) ==
    LET rows == SelectSeq(data, LAMBDA r : <<r.year, r.season, r.pollutant>> = key)
    IN  Mean([i \in DOMAIN rows |-> rows[i].value])

\* values in descending order
RECURSIVE InsertDesc(_, _)
InsertDesc(v, sorted) ==
    IF sorted = <<>> THEN <<v>>
    ELSE IF FLess(Head(sorted), v) THEN <<v>> \o sorted
    ELSE <<Head(sorted)>> \o InsertDesc(v, Tail(sorted))

RECURSIVE SortDesc(_)
SortDesc(vs) == IF vs = <<>> THEN <<>> ELSE InsertDesc(Head(vs), SortDesc(Tail(vs)))

\* ranks along a sorted sequence: the rank grows by one where the value changes
RECURSIVE RanksOfSorted(_)
RanksOfSorted(s) ==
    IF s = <<>> THEN <<>>
    ELSE IF Len(s) = 1 THEN <<1>>
    ELSE LET r == RanksOfSorted(SubSeq(s, 1, Len(s) - 1))
         IN  Append(r, IF FEq(s[Len(s)], s[Len(s) - 1]) THEN r[Len(r)] ELSE r[Len(r)] + 1)

\* rank(method='min'): the position of the first equal value
MinRankDesc(vs) ==
    LET s == SortDesc(vs)
    IN  [i \in DOMAIN vs |-> CHOOSE k \in DOMAIN s :
            FEq(s[k], vs[i]) /\ \A j \in 1..(k - 1) : ~FEq(s[j], vs[i])]

\* Series.rank(ascending=False, method='dense')
DenseRankDesc(vs) ==
    LET s  == SortDesc(vs)
        rs == RanksOfSorted(s)
    IN  [i \in DOMAIN vs |-> rs[CHOOSE k \in DOMAIN s : FEq(s[k], vs[i])]]

\* the seasons of a (year, pollutant) group in the order of the grouped table
SeasonsSorted == <<"Fall", "Spring", "Summer", "Winter">>

\* data_avg: the means, then the rank within each (year, pollutant) group
DataAvg(data) ==
    LET keys == GroupKeys(data)
        GroupRows(y, p) ==
            LET ss == SelectSeq(SeasonsSorted, LAMBDA s : <<y, s, p>> \in keys)
                ms == [i \in DOMAIN ss |-> GroupMean(data, <<y, ss[i], p>>)]
                rk == DenseRankDesc(ms)
            IN  {[year |-> y, season |-> ss[i], pollutant |-> p,
                  avg_value |-> ms[i], rank |-> rk[i]] : i \in DOMAIN ss}
    IN  UNION {GroupRows(k[1], k[3]) : k \in keys}

\* the loop body on the file whose read_csv result is `read`
SeasonalBody(read) ==
    IF "date" \notin read.cols
    THEN [err |-> "ValueError:parse_dates", out |-> <<>>]
    ELSE IF ~DateColumnParsed(read)
    THEN [err |-> "AttributeError:dt", out |-> <<>>]
    ELSE [err |-> "none", out |-> Melt(read)]

\* the lines after the means and ranks, up to write_html:
\* pollutants.index('NO_2') raises when NO_2 is no pollutant of data_avg
ChartError(avg) ==
    IF "NO_2" \notin {r.pollutant : r \in avg} THEN "ValueError:index" ELSE "none"

seasonalOther == <<annualVars, season_means, pollutant_avgs, ranking>>

SeasonalGlob ==
    /\ pc = "start"
    /\ \E names \in Listings :
        /\ files' = GlobMadrid(names)
        /\ IF files' = <<>>
           THEN pc' = "error" /\ err' = "FileNotFoundError"
           ELSE pc' = "loop" /\ UNCHANGED err
    /\ UNCHANGED <<idx, df, nread, headers, df_list, data_avg, artifacts>>
    /\ UNCHANGED seasonalOther

\* one pass of the loop body
SeasonalFile ==
    /\ pc = "loop" /\ idx <= Len(files)
    /\ \E cols \in ColSets, ks \in SeasonRowSeqs[MaxObs - nread] :
        LET read == Frame(ParseInt(files[idx].num), cols, ks)
            body == SeasonalBody(read)
        IN  /\ Canonical(cols, ks)
            /\ nread' = nread + Len(ks)
            /\ df' = IF "date" \in cols THEN read ELSE df
            /\ IF body.err # "none"
               THEN pc' = "error" /\ err' = body.err /\ UNCHANGED <<df_list, idx>>
               ELSE /\ df_list' = Append(df_list, body.out)
                    /\ idx' = idx + 1
                    /\ UNCHANGED <<pc, err>>
    /\ UNCHANGED <<files, headers, data_avg, artifacts>>
    /\ UNCHANGED seasonalOther

\* after the loop: the means and ranks, the traces, the chart
SeasonalFinish ==
    /\ pc = "loop" /\ idx > Len(files)
    /\ data_avg' = DataAvg(Concat(df_list))
    /\ IF ChartError(data_avg') # "none"
       THEN /\ pc' = "error" /\ err' = ChartError(data_avg')
            /\ UNCHANGED artifacts
       ELSE /\ artifacts' = [artifacts EXCEPT ![BarChart] = "written"]
            /\ pc' = "done" /\ UNCHANGED err
    /\ UNCHANGED <<files, idx, df, nread, headers, df_list>>
    /\ UNCHANGED seasonalOther

InitSeasonal == InitLocals /\ artifacts = [a \in Artifacts |-> "absent"]

NextSeasonal == SeasonalGlob \/ SeasonalFile \/ SeasonalFinish

SpecSeasonal == InitSeasonal /\ [][NextSeasonal]_vars

\* data_avg has been computed
Ranked == pc = "done" \/ err = "ValueError:index"

\* the rows of data_avg of one (year, pollutant) group
RankGroup(y, p) == {r \in data_avg : r.year = y /\ r.pollutant = p}

\* C2: in every (year, pollutant) group the ranks are the dense ranks of the
\* seasonal means in descending order: a season with the highest mean has
\* rank 1, equal means have equal ranks, a higher mean has a smaller rank, and
\* the ranks used are exactly 1..k for the k distinct means of the group.
C2_DenseRank ==
    Ranked =>
        \A g \in data_avg :
            LET G == RankGroup(g.year, g.pollutant)
                k == Cardinality({{q \in G : FEq(q.avg_value, r.avg_value)} : r \in G})
            IN  /\ \A r \in G : (\A q \in G : ~FLess(r.avg_value, q.avg_value)) => r.rank = 1
                /\ \A r, q \in G : FEq(r.avg_value, q.avg_value) => r.rank = q.rank
                /\ \A r, q \in G : FLess(q.avg_value, r.avg_value) => r.rank < q.rank
                /\ {r.rank : r \in G} = 1..k

\* a group of three seasons, two of them tied for the highest mean
C2_Witness ==
    /\ Ranked
    /\ \E a, b, c \in data_avg :
        /\ a.pollutant = "NO_2" /\ {b, c} \subseteq RankGroup(a.year, a.pollutant)
        /\ a.season # b.season /\ a.rank = 1 /\ b.rank = 1 /\ c.rank = 2

\* the column station_ranking_chart groups by: the station identifier
StationColumn == "station"
Housekeeping == {"date", StationColumn, "month", "year", "season"}

\* C10: no housekeeping column (date, station identifier, month, year,
\* season) appears as a pollutant in the long-form rows or in the means.
C10_NoHousekeepingPollutant ==
    /\ \A k \in DOMAIN df_list : \A r \in Range(df_list[k]) : r.pollutant \notin Housekeeping
    /\ Ranked => \A r \in data_avg : r.pollutant \notin Housekeeping

\* C6: a yearly file without a date column is skipped, never fatal: reading
\* one does not end the function in an error, and the loop goes on.
C6_MissingDateNotFatal ==
    \A k \in DOMAIN headers : "date" \notin headers[k] => pc # "error"

-----------------------------------------------------------------------------
(* main.py: station_ranking_chart() *)

StationChart == "BCK2_station_pollution_chart.html"

\* selected_pollutants = ["NO", "NO_2", "NOx"]
selected_pollutants == <<"NO", "NO_2", "NOx">>

\* the station identifiers of the 2018 file
Stations == {4, 8}

\* the rows of madrid_2018.csv: a station and a cell per selected pollutant
StationRowKinds == [station : Stations, NO : Vals \cup {NaN}, NO_2 : Vals \cup {NaN},
                    NOx : Vals \cup {NaN}]

StationRowCode(r) ==
    ((r.station * 4 + (r.NO + 1)) * 4 + (r.NO_2 + 1)) * 4 + (r.NOx + 1)

RECURSIVE SortedStationRows(_)
SortedStationRows(n) ==
    IF n = 0 THEN {<<>>}
    ELSE LET P == SortedStationRows(n - 1)
             ext == {sr \in {p \in P : Len(p) = n - 1} \X StationRowKinds :
                        sr[1] = <<>>
                        \/ StationRowCode(sr[1][Len(sr[1])]) <= StationRowCode(sr[2])}
         IN  P \cup {Append(sr[1], sr[2]) : sr \in ext}

\* the 2018 files read
PollutionData == SortedStationRows(MaxStationRows) \ {<<>>}

\* stations.csv: the stations that have a row (id, name) in it
StationInfos == SUBSET Stations

\* the display name of stations.csv, and str(station) for a station without one
DisplayName(id) == <<"name", id>>
RawName(id) == <<"str", id>>

RECURSIVE SortedIds(_)
SortedIds(S) ==
    IF S = {} THEN <<>>
    ELSE LET m == CHOOSE x \in S : \A y \in S : x <= y IN <<m>> \o SortedIds(S \ {m})

\* groupby("station")[selected_pollutants].mean().reset_index()
\*   .merge(station_info, left_on="station", right_on="id", how="left")
\* and name.fillna(station.astype(str))
PollutantAvgs(data, info) ==
    LET ids == SortedIds({data[i].station : i \in DOMAIN data})
        Of(id) == SelectSeq(data, LAMBDA r : r.station = id)
    IN  [k \in DOMAIN ids |->
            LET rows == Of(ids[k])
            IN  [station |-> ids[k],
                 name    |-> IF ids[k] \in info THEN DisplayName(ids[k]) ELSE RawName(ids[k]),
                 NO      |-> Mean([i \in DOMAIN rows |-> rows[i].NO]),
                 NO_2    |-> Mean([i \in DOMAIN rows |-> rows[i].NO_2]),
                 NOx     |-> Mean([i \in DOMAIN rows |-> rows[i].NOx])]]

AvgOf(row, p) == IF p = "NO" THEN row.NO ELSE IF p = "NO_2" THEN row.NO_2 ELSE row.NOx

\* pollutant_avgs[["name", pollutant]]
NameAndValue(avgs, p) == [k \in DOMAIN avgs |-> [name |-> avgs[k].name, value |-> AvgOf(avgs[k], p)]]

\* a frame.dropna() taken before the pollutant's columns are selected
DropAnyMissing(avgs, p) ==
    NameAndValue(SelectSeq(avgs, LAMBDA r : \A q \in Range(selected_pollutants) :
                                                IsFinite(AvgOf(r, q))), p)

\* pollutant_avgs[["name", pollutant]].dropna()
DropMissing(avgs, p) == SelectSeq(NameAndValue(avgs, p), LAMBDA r : IsFinite(r.value))

Permutations(rows) ==
    {[k \in DOMAIN rows |-> rows[f[k]]] :
        f \in {g \in [DOMAIN rows -> DOMAIN rows] : \A a, b \in DOMAIN rows : a # b => g[a] # g[b]}}

\* .sort_values(by=pollutant, ascending=False): the sort is not stable, so
\* rows of equal value come in any order
SortValuesDescending(rows) ==
    {s \in Permutations(rows) :
        \A a, b \in DOMAIN s : a < b => ~FLess(s[a].value, s[b].value)}

stationOther == <<files, df, nread, headers, annualVars, df_list, data_avg, season_means>>

\* the two pd.read_csv calls: they raise when a file is not there
StationRun(present) == IF present THEN "none" ELSE "FileNotFoundError"

\* the two read_csv calls and pollutant_avgs
StationRead ==
    /\ pc = "start"
    /\ \E present \in BOOLEAN, data \in PollutionData, info \in StationInfos :
        IF StationRun(present) # "none"
        THEN pc' = "error" /\ err' = StationRun(present) /\ UNCHANGED pollutant_avgs
        ELSE pc' = "loop" /\ pollutant_avgs' = PollutantAvgs(data, info) /\ UNCHANGED err
    /\ UNCHANGED <<idx, ranking, artifacts>>
    /\ UNCHANGED stationOther

\* one pass of: for pollutant in selected_pollutants
StationSort ==
    /\ pc = "loop" /\ idx <= Len(selected_pollutants)
    /\ \E df_sorted \in SortValuesDescending(DropMissing(pollutant_avgs, selected_pollutants[idx])) :
        ranking' = Append(ranking, df_sorted)
    /\ idx' = idx + 1
    /\ UNCHANGED <<pc, err, pollutant_avgs, artifacts>>
    /\ UNCHANGED stationOther

\* after the loop: the layout and write_html
StationWrite ==
    /\ pc = "loop" /\ idx > Len(selected_pollutants)
    /\ artifacts' = [artifacts EXCEPT ![StationChart] = "written"]
    /\ pc' = "done"
    /\ UNCHANGED <<err, idx, pollutant_avgs, ranking>>
    /\ UNCHANGED stationOther

InitStation == InitLocals /\ artifacts = [a \in Artifacts |-> "absent"]

NextStation == StationRead \/ StationSort \/ StationWrite

SpecStation == InitStation /\ [][NextStation]_vars

\* C4: for each of NO, NO_2, NOx the ranking list holds exactly the stations
\* whose mean of that pollutant is not missing, in non-increasing order of
\* that mean; a station missing from one list is still in every list of a
\* pollutant it has a mean for.
C4_StationRanking ==
    \A k \in DOMAIN ranking :
        LET p    == selected_pollutants[k]
            list == ranking[k]
        IN  /\ \A row \in Range(pollutant_avgs) :
                   IsFinite(AvgOf(row, p)) <=>
                       \E i \in DOMAIN list : list[i] = [name |-> row.name, value |-> AvgOf(row, p)]
            /\ Len(list) = Cardinality({row \in Range(pollutant_avgs) : IsFinite(AvgOf(row, p))})
            /\ \A i, j \in DOMAIN list : i < j => ~FLess(list[i].value, list[j].value)

\* two stations, one of them without a NO mean: both in the NO_2 list, the
\* higher first, and only the other in the NO list
C4_Witness ==
    /\ pc = "done"
    /\ Len(ranking[1]) = 1 /\ Len(ranking[2]) = 2
    /\ FLess(ranking[2][2].value, ranking[2][1].value)
    /\ ranking[2][2].name # ranking[1][1].name

-----------------------------------------------------------------------------
(* main.py: pollution_trend_chart() and the entry point *)

TrendChart == "OMR4_pollution_trend.html"

\* the columns the annual summary may have besides 'year'
TrendTables == SUBSET {"NO_2", "PM10", "O_3"}

\* pollution_trend_chart up to write_html: read_csv of the annual summary,
\* then df[pol] for pol in ['NO_2', 'PM10', 'O_3']
TrendRun(csv, cols) ==
    IF csv = "absent" THEN "FileNotFoundError"
    ELSE IF ~({"NO_2", "PM10", "O_3"} \subseteq cols) THEN "KeyError"
    ELSE "none"

\* the loop of seasonal_pollution_pie_chart over the frames of the files
RECURSIVE ShareLoop(_, _)
ShareLoop(frames, acc) ==
    IF frames = <<>> THEN [err |-> "none", df_list |-> acc]
    ELSE LET body == ShareBody(Head(frames))
         IN  IF body.err # "none" THEN [err |-> body.err, df_list |-> acc]
             ELSE ShareLoop(Tail(frames), IF body.skip THEN acc ELSE Append(acc, body.out))

\* seasonal_pollution_pie_chart up to write_html
PieRun(frames) ==
    LET loop == ShareLoop(frames, <<>>)
    IN  IF loop.err # "none" THEN loop.err
        ELSE IF loop.df_list = <<>> THEN "ValueError:no_data"
        ELSE "none"

\* the loop of seasonal_pollution_chart over the frames of the files
RECURSIVE SeasonalLoop(_, _)
SeasonalLoop(frames, acc) ==
    IF frames = <<>> THEN [err |-> "none", df_list |-> acc]
    ELSE LET body == SeasonalBody(Head(frames))
         IN  IF body.err # "none" THEN [err |-> body.err, df_list |-> acc]
             ELSE SeasonalLoop(Tail(frames), Append(acc, body.out))

\* seasonal_pollution_chart up to write_html
BarRun(frames) ==
    IF frames = <<>> THEN "FileNotFoundError"
    ELSE LET loop == SeasonalLoop(frames, <<>>)
         IN  IF loop.err # "none" THEN loop.err
             ELSE ChartError(DataAvg(Concat(loop.df_list)))

\* the data directories the entry point is run on: files of one row
MainDraws ==
    {d \in ColSets \X {r \in SeasonKinds : r.m \in {12, NaN} /\ r.v \in {1, NaN}} :
        Canonical(d[1], <<d[2]>>)}

DirFrames(fs) ==
    {[k \in DOMAIN fs |-> Frame(ParseInt(fs[k].num), d[k][1], <<d[k][2]>>)] :
        d \in [DOMAIN fs -> MainDraws]}

DataDirs == UNION {DirFrames(GlobMadrid(names)) : names \in Listings}

\* the calls with the two seasonal charts exchanged
EntryPointSwapped == <<"bar", "pie", "station", "trend">>

\* the calls under if __name__ == "__main__", in order
EntryPoint == <<"pie", "bar", "station", "trend">>

ArtifactOf(call) ==
    CASE call = "pie" -> PieChart [] call = "bar" -> BarChart
      [] call = "station" -> StationChart [] call = "trend" -> TrendChart

mainOther == <<files, df, nread, headers, annualVars, df_list, data_avg, season_means,
               pollutant_avgs, ranking>>

\* a call of the entry point that ends with outcome e: its chart is written
\* and the next call follows, or the exception ends the program
Call(e) ==
    /\ IF e = "none"
       THEN /\ artifacts' = [artifacts EXCEPT ![ArtifactOf(EntryPoint[idx + 1])] = "written"]
            /\ idx' = idx + 1
            /\ UNCHANGED <<pc, err>>
       ELSE /\ pc' = "error" /\ err' = e
            /\ UNCHANGED <<artifacts, idx>>
    /\ UNCHANGED mainOther

Calling(call) == pc = "main" /\ idx < Len(EntryPoint) /\ EntryPoint[idx + 1] = call

MainPie == Calling("pie") /\ \E frames \in DataDirs : Call(PieRun(frames))

MainBar == Calling("bar") /\ \E frames \in DataDirs : Call(BarRun(frames))

MainStation == Calling("station") /\ \E present \in BOOLEAN : Call(StationRun(present))

MainTrend ==
    Calling("trend") /\ \E cols \in TrendTables : Call(TrendRun(artifacts[AnnualCsv], cols))

MainExit ==
    /\ pc = "main" /\ idx = Len(EntryPoint)
    /\ pc' = "exit"
    /\ UNCHANGED <<err, idx, artifacts>>
    /\ UNCHANGED mainOther

\* the working directory before a run: artifacts of an earlier run or none
InitMain ==
    /\ InitLocals
    /\ artifacts \in [Artifacts -> {"absent", "old"}]

StartMain ==
    /\ pc = "start"
    /\ pc' = "main" /\ idx' = 0
    /\ UNCHANGED <<err, artifacts>>
    /\ UNCHANGED mainOther

NextMain == StartMain \/ MainPie \/ MainBar \/ MainStation \/ MainTrend \/ MainExit

SpecMain == InitMain /\ [][NextMain]_vars

\* the order the charts are to be written in
ChartOrder ==
    <<"BA2_seasonal_pie_chart.html", "BA2_seasonal_bar_chart.html",
      "BCK2_station_pollution_chart.html", "OMR4_pollution_trend.html">>

\* C8: the charts are written in the order pie, bar, station ranking, trend:
\* at any moment of a run, and at its end, the charts written by the run are
\* the first idx of that sequence, where idx counts the calls that returned;
\* a run ended by an exception has written the charts of the calls before
\* the failing one, which stay written, and no other.
C8_ArtifactsPrefix ==
    pc \in {"main", "exit", "error"} =>
        /\ \A k \in DOMAIN ChartOrder : artifacts[ChartOrder[k]] = "written" <=> k <= idx
        /\ pc = "exit" => idx = Len(ChartOrder)
        /\ pc = "error" => idx < Len(ChartOrder)

\* the station ranking fails after the two seasonal charts were written
C8_Witness ==
    /\ pc = "error" /\ idx = 2
    /\ artifacts[ChartOrder[1]] = "written" /\ artifacts[ChartOrder[2]] = "written"
    /\ artifacts[ChartOrder[3]] = "old"

====
